---- MODULE Spec2Model ----
(***************************************************************************)
(* A model of AnnotSV_DB.py: the four-pass import of an AnnotSV TSV file   *)
(* into the SQLite store created by create_database.                       *)
(*                                                                         *)
(* Text is modelled as a sequence of one-character strings, so that strip, *)
(* lower, split and int are computed as Python computes them.  A TSV file  *)
(* is a header (the set of column names it carries) and a sequence of      *)
(* rows; a row maps every column name to its text.  The store is a record  *)
(* of tables, each a set of rows: `disk' is the committed store, `db' is   *)
(* what the open connection sees (disk plus the uncommitted writes).       *)
(* The eleven descriptive columns of sv_tx take no part in any key or      *)
(* branch and are left out: an sv_tx row is its key (SV_id, Tx_id).        *)
(***************************************************************************)
EXTENDS Integers, Sequences, FiniteSets, TLC

VARIABLES
    hdr,            \* reader.fieldnames: the column names of the header
    file,           \* the data rows of the TSV file
    disk,           \* the committed store
    db,             \* the store as the open connection sees it
    conn,           \* the sqlite3 connection: "none", "open", "closed"
    fh,             \* TRUE while a `with open(...)' block holds the file
    pc,             \* position in import_tsv
    i,              \* index of the next row of the running pass
    run,            \* number of import_tsv calls started so far
    total_rows, imported_rows, skipped_rows, full_count, split_count,
    processed_sv,   \* the sv_key tuples seen in this run
    transcript_count,
    samples_string, \* the sample list of the row phase 3 is working on
    sample_names,   \* its tokens, as parse_multiple_samples returns them
    snapshot        \* the committed store when the previous run completed

vars == <<hdr, file, disk, db, conn, fh, pc, i, run, total_rows, imported_rows,
          skipped_rows, full_count, split_count, processed_sv,
          transcript_count, samples_string, sample_names, snapshot>>

counters == <<total_rows, imported_rows, skipped_rows, full_count, split_count,
              processed_sv, transcript_count>>

locals == <<samples_string, sample_names>>

(***************************************************************************)
(* Bounds of the model.                                                    *)
(***************************************************************************)
MaxRows == 2
MaxRuns == 2
MaxLen == 4

(***************************************************************************)
(* Text.                                                                   *)
(***************************************************************************)
UpperCase == <<"A","B","C","D","E","F","G","H","I","J","K","L","M",
               "N","O","P","Q","R","S","T","U","V","W","X","Y","Z">>
LowerCase == <<"a","b","c","d","e","f","g","h","i","j","k","l","m",
               "n","o","p","q","r","s","t","u","v","w","x","y","z">>
Digits == <<"0","1","2","3","4","5","6","7","8","9">>

\* str.lower() on one character
LowerChar(c) ==
    IF \E k \in 1..Len(UpperCase) : UpperCase[k] = c
    THEN LowerCase[CHOOSE k \in 1..Len(UpperCase) : UpperCase[k] = c]
    ELSE c

\* str.lower()
Lower(s) == [k \in 1..Len(s) |-> LowerChar(s[k])]

RECURSIVE LStrip(_)
LStrip(s) == IF s # <<>> /\ Head(s) = " " THEN LStrip(Tail(s)) ELSE s

RECURSIVE RStrip(_)
RStrip(s) ==
    IF s # <<>> /\ s[Len(s)] = " " THEN RStrip(SubSeq(s, 1, Len(s) - 1)) ELSE s

\* str.strip()
Strip(s) == RStrip(LStrip(s))

\* str.split(sep): the pieces between the separators, [''] for the empty text
RECURSIVE SplitOn(_, _)
SplitOn(s, sep) ==
    IF \E k \in 1..Len(s) : s[k] = sep
    THEN LET k == CHOOSE k \in 1..Len(s) :
                      s[k] = sep /\ \A j \in 1..(k - 1) : s[j] # sep
         IN  <<SubSeq(s, 1, k - 1)>> \o SplitOn(SubSeq(s, k + 1, Len(s)), sep)
    ELSE <<s>>

IsDigit(c) == \E k \in 1..Len(Digits) : Digits[k] = c
DigitVal(c) == (CHOOSE k \in 1..Len(Digits) : Digits[k] = c) - 1

RECURSIVE DigitsVal(_)
DigitsVal(s) ==
    IF s = <<>> THEN 0 ELSE 10 * DigitsVal(SubSeq(s, 1, Len(s) - 1)) + DigitVal(s[Len(s)])

\* int(text): the text trimmed, an optional sign, then one or more digits;
\* anything else raises ValueError (ok = FALSE)
ParseInt(s) ==
    LET t == Strip(s)
        signed == t # <<>> /\ Head(t) \in {"+", "-"}
        body == IF signed THEN Tail(t) ELSE t
    IN  IF body # <<>> /\ \A k \in 1..Len(body) : IsDigit(body[k])
        THEN [ok |-> TRUE,
              val |-> IF signed /\ Head(t) = "-" THEN 0 - DigitsVal(body) ELSE DigitsVal(body)]
        ELSE [ok |-> FALSE, val |-> 0]

Range(s) == {s[k] : k \in 1..Len(s)}

NA == <<"N", "A">>
full == <<"f", "u", "l", "l">>
split == <<"s", "p", "l", "i", "t">>
\* a nullable text is None or Some(text)
None == <<>>
Some(t) == <<t>>

(***************************************************************************)
(* The helpers of AnnotSV_DB.py.                                           *)
(***************************************************************************)
normalize_sample_id(sample_id) ==
    IF sample_id = <<>> THEN NA ELSE Strip(sample_id)

\* parse_multiple_samples without the placeholder: the trimmed pieces as they are
parse_multiple_samples_NoPlaceholder(text) ==
    LET toks == SplitOn(text, ",")
    IN  [k \in 1..Len(toks) |-> Strip(toks[k])]

parse_multiple_samples(text) ==
    LET toks == SplitOn(text, ",")
        all == [k \in 1..Len(toks) |-> normalize_sample_id(Strip(toks[k]))]
        Truthy(t) == t # <<>>
        samples == SelectSeq(all, Truthy)
    IN  IF samples = <<>> THEN <<NA>> ELSE samples

\* check_annotation_mode that rejects only a missing value
ModeInvalid_OnlyMissing(value) == value = <<>>

\* check_annotation_mode: TRUE when it calls exit()
ModeInvalid(value) ==
    \/ value = <<>>
    \/ Lower(Strip(value)) \notin {full, split}

check_annotation_mode(value) == Lower(Strip(value))

(***************************************************************************)
(* The input file.                                                         *)
(***************************************************************************)
AllColumns == {"Samples_ID", "Gene_name", "Annotation_mode", "AnnotSV_ID",
               "SV_chrom", "SV_start", "SV_end", "SV_type",
               "Tx", "Tx_version", "Tx_start", "Tx_end"}

\* The headers tried: every recognised column, or all but one optional column.
Headers == {AllColumns \ m : m \in {{}, {"Samples_ID"}, {"Gene_name"}, {"Tx_version"}}}

MkRow(mode, id, start, samples, gene, tx, tx_start) ==
    [Annotation_mode |-> mode, AnnotSV_ID |-> id, SV_chrom |-> <<"1">>,
     SV_start |-> start, SV_end |-> <<"9">>, SV_type |-> <<"D", "E", "L">>,
     Samples_ID |-> samples, Gene_name |-> gene,
     Tx |-> tx, Tx_version |-> <<"1">>, Tx_start |-> tx_start, Tx_end |-> <<"8">>]

\* Summary rows: a shared AnnotSV_ID with equal, different and unparseable
\* coordinates, empty and multiple sample lists, a gene named only here.
FullRows ==
    {MkRow(full, <<"A">>, st, sa, <<"F">>, <<>>, <<>>) :
        st \in {<<"5">>, <<>>}, sa \in {<<>>, <<"a", ",", " ", "b">>}}
    \cup {MkRow(full, <<"A">>, <<"x">>, <<"a">>, <<"F">>, <<>>, <<>>),
          MkRow(<<" ", "F", "U", "L", "L", " ">>, <<"B">>, <<"5">>, <<"b", ",">>,
                <<"F">>, <<>>, <<>>)}

\* Detail rows: with and without a gene, with and without a summary row of
\* their AnnotSV_ID, the same transcript restated with different coordinates,
\* an unparseable transcript start.
SplitRows ==
    {MkRow(split, id, <<"5">>, <<"c">>, g, <<"T">>, <<"3">>) :
        id \in {<<"A">>, <<"B">>}, g \in {<<>>, <<" ", "G">>}}
    \cup {MkRow(split, <<"A">>, <<"5">>, <<"c">>, <<" ", "G">>, <<"T">>, <<"4">>),
          MkRow(<<"S", "p", "l", "i", "t", " ">>, <<"A">>, <<"5">>, <<"c">>,
                <<"H">>, <<"T">>, <<"x">>)}

\* Rows whose annotation mode is unrecognised or missing.
BadRows ==
    {MkRow(m, <<"A">>, <<"5">>, <<"a">>, <<"G">>, <<>>, <<>>) :
        m \in {<<"w", "e", "i", "r", "d">>, <<>>}}

Rows == FullRows \cup SplitRows \cup BadRows

Files == UNION {[1..n -> Rows] : n \in 0..MaxRows}

\* row.get(column, '') for a column variable that is None when the header
\* lacks the column
Field(row, col) == IF col \in hdr THEN row[col] ELSE <<>>

(***************************************************************************)
(* The store (create_database).                                            *)
(***************************************************************************)
EmptyStore ==
    [samples |-> {}, genes |-> {}, SV |-> {}, Tx |-> {},
     sv_samples |-> {}, sv_genes |-> {}, sv_tx |-> {}]

Max(S) == IF S = {} THEN 0 ELSE CHOOSE m \in S : \A n \in S : n <= m
Min(S) == CHOOSE m \in S : \A n \in S : m <= n

\* INTEGER PRIMARY KEY AUTOINCREMENT: one more than the largest id given
NextId(ids) == Max(ids) + 1

Init ==
    /\ hdr \in Headers
    /\ file \in Files
    /\ disk = EmptyStore
    /\ db = EmptyStore
    /\ conn = "none"
    /\ fh = FALSE
    /\ pc = "idle"
    /\ i = 1
    /\ run = 0
    /\ total_rows = 0
    /\ imported_rows = 0
    /\ skipped_rows = 0
    /\ full_count = 0
    /\ split_count = 0
    /\ processed_sv = {}
    /\ transcript_count = 0
    /\ samples_string = <<>>
    /\ sample_names = <<>>
    /\ snapshot = <<>>

(***************************************************************************)
(* import_tsv.                                                             *)
(***************************************************************************)
\* A call of import_tsv on the same file and store: the preconditions hold,
\* the connection is opened and the file is opened for phase 1.
Begin ==
    /\ pc \in {"idle", "done"}
    /\ run < MaxRuns
    /\ run' = run + 1
    /\ snapshot' = IF pc = "done" THEN <<disk>> ELSE <<>>
    /\ conn' = "open"
    /\ db' = disk
    /\ fh' = TRUE
    /\ pc' = "p1"
    /\ i' = 1
    /\ total_rows' = 0
    /\ imported_rows' = 0
    /\ skipped_rows' = 0
    /\ full_count' = 0
    /\ split_count' = 0
    /\ processed_sv' = {}
    /\ transcript_count' = 0
    /\ samples_string' = <<>>
    /\ sample_names' = <<>>
    /\ UNCHANGED <<hdr, file, disk>>

\* Phase 1: the sample tokens of every row, when the header has Samples_ID
all_samples ==
    IF "Samples_ID" \in hdr
    THEN UNION {Range(parse_multiple_samples(Strip(file[k]["Samples_ID"]))) :
                    k \in 1..Len(file)}
    ELSE {}

\* Phase 1, with its INSERT OR IGNORE INTO samples and its commit
Phase1 ==
    /\ pc = "p1"
    /\ db' = [db EXCEPT !.samples = @ \cup all_samples]
    /\ disk' = db'
    /\ pc' = "p2"
    /\ UNCHANGED <<hdr, file, conn, fh, i, run, counters, locals, snapshot>>

\* phase 2 collecting the gene names of every row, whatever its mode
all_genes_AnyMode ==
    IF "Gene_name" \in hdr /\ "Annotation_mode" \in hdr
    THEN {Strip(file[k]["Gene_name"]) :
            k \in {j \in 1..Len(file) : Strip(file[j]["Gene_name"]) # <<>>}}
    ELSE {}

\* Phase 2: the trimmed non-empty gene names of the split rows, when the
\* header has both Gene_name and Annotation_mode
all_genes ==
    IF "Gene_name" \in hdr /\ "Annotation_mode" \in hdr
    THEN {Strip(file[k]["Gene_name"]) :
            k \in {j \in 1..Len(file) :
                     /\ Lower(Strip(file[j]["Annotation_mode"])) = split
                     /\ Strip(file[j]["Gene_name"]) # <<>>}}
    ELSE {}


\* INSERT OR IGNORE INTO genes for the names in the sequence `order'
RECURSIVE InsertGenes(_, _)
InsertGenes(genes, order) ==
    IF order = <<>> THEN genes
    ELSE LET g == Head(order)
             next == IF \E r \in genes : r.gene_name = g
                     THEN genes
                     ELSE genes \cup {[gene_id |-> NextId({r.gene_id : r \in genes}),
                                       gene_name |-> g]}
         IN  InsertGenes(next, Tail(order))

\* The orders in which a loop over a Python set can visit its elements
Orders(S) ==
    {o \in [1..Cardinality(S) -> S] : \A a, b \in 1..Cardinality(S) : a # b => o[a] # o[b]}

\* Phase 2, with its inserts and its commit, up to the start of the loop of
\* phase 3 (the counters are set to zero, the file is opened again)
Phase2 ==
    /\ pc = "p2"
    /\ \E order \in Orders(all_genes) :
           db' = [db EXCEPT !.genes = InsertGenes(@, order)]
    /\ disk' = db'
    /\ pc' = "p3"
    /\ i' = 1
    /\ total_rows' = 0
    /\ imported_rows' = 0
    /\ skipped_rows' = 0
    /\ full_count' = 0
    /\ split_count' = 0
    /\ processed_sv' = {}
    /\ transcript_count' = 0
    /\ UNCHANGED <<hdr, file, conn, fh, run, locals, snapshot>>

(***************************************************************************)
(* Phase 3: one SV row per summary row, linked to its samples.             *)
(***************************************************************************)
\* Annotation_mode as the loop of phase 3 reads it
Mode3(row) ==
    IF "Annotation_mode" \in hdr THEN Lower(Strip(row["Annotation_mode"])) ELSE <<>>

\* samples_string and sample_names of a row in phase 3
SamplesString3(row) == IF "Samples_ID" \in hdr THEN Strip(row["Samples_ID"]) ELSE <<>>
SampleNames3(row) == parse_multiple_samples(SamplesString3(row))

\* SV_start / SV_end where text that is no integer counts as 0
Coord_DefaultZero(row, col) ==
    IF col \in hdr /\ Strip(row[col]) # <<>>
    THEN [ok |-> TRUE, val |-> ParseInt(Strip(row[col])).val]
    ELSE [ok |-> TRUE, val |-> 0]

\* SV_start / SV_end: int of the trimmed text, 0 when the column or the text
\* is missing
Coord(row, col) ==
    IF col \in hdr /\ Strip(row[col]) # <<>>
    THEN ParseInt(Strip(row[col]))
    ELSE [ok |-> TRUE, val |-> 0]

TextOf(row, col) == IF col \in hdr THEN Strip(row[col]) ELSE <<>>

\* the try block of phase 3 raised ValueError
CoordError(row) == ~Coord(row, "SV_start").ok \/ ~Coord(row, "SV_end").ok

sv_key(row) ==
    <<TextOf(row, "AnnotSV_ID"), TextOf(row, "SV_chrom"),
      Coord(row, "SV_start").val, Coord(row, "SV_end").val, Mode3(row)>>

\* INSERT OR IGNORE INTO SV: the table has no natural-key constraint, so the
\* row is always added, under a fresh SV_id
InsertSV(SV, row) ==
    SV \cup {[SV_id |-> NextId({r.SV_id : r \in SV}),
              AnnotSV_ID |-> TextOf(row, "AnnotSV_ID"),
              SV_chrom |-> TextOf(row, "SV_chrom"),
              SV_start |-> Coord(row, "SV_start").val,
              SV_end |-> Coord(row, "SV_end").val,
              SV_type |-> TextOf(row, "SV_type"),
              Annotation_mode |-> Mode3(row)]}

\* SELECT SV_id FROM SV WHERE AnnotSV_ID = ? AND Annotation_mode = ?
SelectSV(SV, id, mode) ==
    {r.SV_id : r \in {q \in SV : q.AnnotSV_ID = id /\ q.Annotation_mode = mode}}

\* fetchone(): the first row of the scan of idx_sv_annotsv, the smallest SV_id
FetchOne(ids) == Min(ids)

\* phase 3 without the processed_sv guard
Creates_NoDedup(row) ==
    /\ ~ModeInvalid(Mode3(row))
    /\ check_annotation_mode(Mode3(row)) = full
    /\ ~CoordError(row)

\* the row reaches the INSERT of phase 3
Creates(row) ==
    /\ ~ModeInvalid(Mode3(row))
    /\ check_annotation_mode(Mode3(row)) = full
    /\ ~CoordError(row)
    /\ sv_key(row) \notin processed_sv

\* the SV_id that phase 3 links the samples of the row to
LinkedSV(SV, row) == FetchOne(SelectSV(SV, TextOf(row, "AnnotSV_ID"), Mode3(row)))

\* the store after the INSERT of the SV row and the INSERT OR IGNORE of its
\* sv_samples rows
StoreAfterFull(store, row) ==
    LET sv == InsertSV(store.SV, row)
    IN  [store EXCEPT
            !.SV = sv,
            !.sv_samples = @ \cup {<<LinkedSV(sv, row), s>> : s \in Range(SampleNames3(row))}]

\* a sample of the row has no samples row: with foreign keys on, the INSERT
\* INTO sv_samples raises IntegrityError
ForeignKeyFails(store, row) == \E s \in Range(SampleNames3(row)) : s \notin store.samples

\* the abort with the open transaction written to the store
Pass3Abort_Commits ==
    /\ pc = "p3"
    /\ i <= Len(file)
    /\ ModeInvalid(Mode3(file[i]))
    /\ total_rows' = total_rows + 1
    /\ pc' = "aborted"
    /\ disk' = db
    /\ fh' = FALSE
    /\ UNCHANGED <<hdr, file, db, conn, i, run, imported_rows, skipped_rows,
                   full_count, split_count, processed_sv, transcript_count,
                   locals, snapshot>>

\* check_annotation_mode calls exit(): the process ends inside the loop, the
\* `with' block closes the file, nothing of the open transaction is committed
Pass3Abort ==
    /\ pc = "p3"
    /\ i <= Len(file)
    /\ ModeInvalid(Mode3(file[i]))
    /\ total_rows' = total_rows + 1
    /\ pc' = "aborted"
    /\ db' = disk
    /\ fh' = FALSE
    /\ UNCHANGED <<hdr, file, disk, conn, i, run, imported_rows, skipped_rows,
                   full_count, split_count, processed_sv, transcript_count,
                   locals, snapshot>>

\* the INSERT INTO sv_samples raises IntegrityError, which nothing catches
Pass3Crash ==
    /\ pc = "p3"
    /\ i <= Len(file)
    /\ Creates(file[i])
    /\ ForeignKeyFails(db, file[i])
    /\ total_rows' = total_rows + 1
    /\ full_count' = full_count + 1
    /\ imported_rows' = imported_rows + 1
    /\ processed_sv' = processed_sv \cup {sv_key(file[i])}
    /\ samples_string' = SamplesString3(file[i])
    /\ sample_names' = SampleNames3(file[i])
    /\ pc' = "crashed"
    /\ db' = disk
    /\ fh' = FALSE
    /\ UNCHANGED <<hdr, file, disk, conn, i, run, skipped_rows, split_count,
                   transcript_count, snapshot>>

\* the iteration with imported_rows counted before the processed_sv guard
Pass3Row_CountsDuplicates ==
    /\ pc = "p3"
    /\ i <= Len(file)
    /\ ~ModeInvalid(Mode3(file[i]))
    /\ LET row == file[i]
           mode == check_annotation_mode(Mode3(row))
       IN  /\ total_rows' = total_rows + 1
           /\ full_count' = IF mode = full THEN full_count + 1 ELSE full_count
           /\ split_count' = IF mode = split THEN split_count + 1 ELSE split_count
           /\ skipped_rows' = IF mode = full /\ CoordError(row)
                              THEN skipped_rows + 1 ELSE skipped_rows
           /\ imported_rows' = IF mode = full /\ ~CoordError(row)
                               THEN imported_rows + 1 ELSE imported_rows
           /\ IF Creates(row)
              THEN /\ ~ForeignKeyFails(db, row)
                   /\ db' = StoreAfterFull(db, row)
                   /\ processed_sv' = processed_sv \cup {sv_key(row)}
              ELSE UNCHANGED <<db, processed_sv>>
           /\ samples_string' = IF mode = full THEN SamplesString3(row) ELSE samples_string
           /\ sample_names' = IF mode = full THEN SampleNames3(row) ELSE sample_names
    /\ i' = i + 1
    /\ UNCHANGED <<hdr, file, disk, conn, fh, pc, run, transcript_count, snapshot>>

\* one iteration of the loop of phase 3 that runs to its end or to a continue
Pass3Row ==
    /\ pc = "p3"
    /\ i <= Len(file)
    /\ ~ModeInvalid(Mode3(file[i]))
    /\ LET row == file[i]
           mode == check_annotation_mode(Mode3(row))
       IN  /\ total_rows' = total_rows + 1
           /\ full_count' = IF mode = full THEN full_count + 1 ELSE full_count
           /\ split_count' = IF mode = split THEN split_count + 1 ELSE split_count
           /\ skipped_rows' = IF mode = full /\ CoordError(row)
                              THEN skipped_rows + 1 ELSE skipped_rows
           /\ IF Creates(row)
              THEN /\ ~ForeignKeyFails(db, row)
                   /\ db' = StoreAfterFull(db, row)
                   /\ processed_sv' = processed_sv \cup {sv_key(row)}
                   /\ imported_rows' = imported_rows + 1
              ELSE UNCHANGED <<db, processed_sv, imported_rows>>
           /\ samples_string' = IF mode = full THEN SamplesString3(row) ELSE samples_string
           /\ sample_names' = IF mode = full THEN SampleNames3(row) ELSE sample_names
    /\ i' = i + 1
    /\ UNCHANGED <<hdr, file, disk, conn, fh, pc, run, transcript_count, snapshot>>

\* the loop of phase 3 is over: the file is closed and opened again for
\* phase 4; nothing is committed here
Pass3End ==
    /\ pc = "p3"
    /\ i > Len(file)
    /\ pc' = "p4"
    /\ i' = 1
    /\ UNCHANGED <<hdr, file, disk, db, conn, fh, run, counters, locals, snapshot>>

(***************************************************************************)
(* The entity resolvers.                                                   *)
(***************************************************************************)
\* SELECT gene_id FROM genes WHERE gene_name = ?
SelectGene(genes, gene_name) == {r.gene_id : r \in {q \in genes : q.gene_name = gene_name}}

\* get_or_create_gene: the genes table after the call and the id returned
get_or_create_gene(genes, gene_name) ==
    IF SelectGene(genes, gene_name) # {}
    THEN [table |-> genes, id |-> FetchOne(SelectGene(genes, gene_name))]
    ELSE [table |-> genes \cup {[gene_id |-> NextId({r.gene_id : r \in genes}),
                                 gene_name |-> gene_name]},
          id |-> NextId({r.gene_id : r \in genes})]

\* the transcript lookup without its IS NULL branch: NULL = NULL is not true
SelectTx_NoNull(Tx, tx_name, tx_version) ==
    {r.Tx_id : r \in {q \in Tx :
        /\ q.Tx_name = tx_name
        /\ q.Tx_version # None /\ tx_version # None /\ q.Tx_version = tx_version}}

\* SELECT Tx_id FROM Tx WHERE Tx_name = ? AND
\*   (Tx_version = ? OR (Tx_version IS NULL AND ? IS NULL))
SelectTx(Tx, tx_name, tx_version) ==
    {r.Tx_id : r \in {q \in Tx :
        /\ q.Tx_name = tx_name
        /\ \/ (q.Tx_version # None /\ tx_version # None /\ q.Tx_version = tx_version)
           \/ (q.Tx_version = None /\ tx_version = None)}}

\* get_or_create_transcript that restates the coordinates of a row it finds
get_or_create_transcript_Overwrite(Tx, tx_name, tx_version, tx_start, tx_end) ==
    IF SelectTx(Tx, tx_name, tx_version) # {}
    THEN [table |-> {IF r.Tx_id = FetchOne(SelectTx(Tx, tx_name, tx_version))
                     THEN [r EXCEPT !.Tx_start = tx_start, !.Tx_end = tx_end]
                     ELSE r : r \in Tx},
          id |-> FetchOne(SelectTx(Tx, tx_name, tx_version))]
    ELSE [table |-> Tx \cup {[Tx_id |-> NextId({r.Tx_id : r \in Tx}),
                              Tx_name |-> tx_name, Tx_version |-> tx_version,
                              Tx_start |-> tx_start, Tx_end |-> tx_end]},
          id |-> NextId({r.Tx_id : r \in Tx})]

\* get_or_create_transcript: the Tx table after the call and the id returned
get_or_create_transcript(Tx, tx_name, tx_version, tx_start, tx_end) ==
    IF SelectTx(Tx, tx_name, tx_version) # {}
    THEN [table |-> Tx, id |-> FetchOne(SelectTx(Tx, tx_name, tx_version))]
    ELSE [table |-> Tx \cup {[Tx_id |-> NextId({r.Tx_id : r \in Tx}),
                              Tx_name |-> tx_name, Tx_version |-> tx_version,
                              Tx_start |-> tx_start, Tx_end |-> tx_end]},
          id |-> NextId({r.Tx_id : r \in Tx})]

(***************************************************************************)
(* Phase 4: the genes and transcripts of the detail rows.                  *)
(***************************************************************************)
\* annotation_mode as the loop of phase 4 reads it
Mode4(row) == Lower(Strip(Field(row, "Annotation_mode")))

TxVersion(row) == IF "Tx_version" \in hdr THEN Some(Strip(row["Tx_version"])) ELSE None

\* the condition of the transcript block, and its two int() calls succeed
TxUsable(row) ==
    /\ Strip(Field(row, "AnnotSV_ID")) # <<>>
    /\ TextOf(row, "Tx") # <<>>
    /\ TextOf(row, "Tx_start") # <<>>
    /\ TextOf(row, "Tx_end") # <<>>
    /\ ParseInt(TextOf(row, "Tx_start")).ok
    /\ ParseInt(TextOf(row, "Tx_end")).ok

\* the parent lookup of phase 4 without its AnnotSV_ID condition
ParentSV_AnyId(SV, row) == {r.SV_id : r \in {q \in SV : q.Annotation_mode = full}}

\* SELECT SV_id FROM SV WHERE AnnotSV_ID = ? AND Annotation_mode = 'full'
ParentSV(SV, row) == SelectSV(SV, Strip(Field(row, "AnnotSV_ID")), full)

\* the transcript block of a split row
TxPart(store, row) ==
    IF TxUsable(row)
    THEN LET got == get_or_create_transcript(store.Tx, TextOf(row, "Tx"), TxVersion(row),
                        ParseInt(TextOf(row, "Tx_start")).val,
                        ParseInt(TextOf(row, "Tx_end")).val)
         IN  [store EXCEPT
                 !.Tx = got.table,
                 !.sv_tx = IF ParentSV(store.SV, row) # {}
                           THEN @ \cup {<<FetchOne(ParentSV(store.SV, row)), got.id>>}
                           ELSE @]
    ELSE store

\* the gene block of a split row
GenePart(store, row) ==
    IF /\ Strip(Field(row, "AnnotSV_ID")) # <<>>
       /\ Strip(Field(row, "Gene_name")) # <<>>
       /\ ParentSV(store.SV, row) # {}
    THEN LET got == get_or_create_gene(store.genes, Strip(Field(row, "Gene_name")))
         IN  [store EXCEPT
                 !.genes = got.table,
                 !.sv_genes = @ \cup {<<FetchOne(ParentSV(store.SV, row)), got.id>>}]
    ELSE store

\* one iteration of the loop of phase 4
Pass4Row ==
    /\ pc = "p4"
    /\ i <= Len(file)
    /\ LET row == file[i]
       IN  IF Mode4(row) = split
           THEN /\ db' = GenePart(TxPart(db, row), row)
                /\ transcript_count' = IF TxUsable(row) THEN transcript_count + 1
                                       ELSE transcript_count
           ELSE UNCHANGED <<db, transcript_count>>
    /\ i' = i + 1
    /\ UNCHANGED <<hdr, file, disk, conn, fh, pc, run, total_rows, imported_rows,
                   skipped_rows, full_count, split_count, processed_sv, locals,
                   snapshot>>

\* the loop of phase 4 is over: the file is closed, the transaction opened in
\* phase 3 is committed, the statistics are read and the connection is closed
Finish ==
    /\ pc = "p4"
    /\ i > Len(file)
    /\ disk' = db
    /\ conn' = "closed"
    /\ fh' = FALSE
    /\ pc' = "done"
    /\ UNCHANGED <<hdr, file, db, i, run, counters, locals, snapshot>>

\* A call of import_tsv that finds the TSV file or the database file missing:
\* it prints the error and returns before it connects or opens anything.
Refuse ==
    /\ pc \in {"idle", "done"}
    /\ run < MaxRuns
    /\ run' = run + 1
    /\ pc' = "refused"
    /\ UNCHANGED <<hdr, file, disk, db, conn, fh, i, counters, locals, snapshot>>

Next ==
    \/ Begin
    \/ Refuse
    \/ Phase1
    \/ Phase2
    \/ Pass3Abort
    \/ Pass3Crash
    \/ Pass3Row
    \/ Pass3End
    \/ Pass4Row
    \/ Finish

Spec == Init /\ [][Next]_vars

(***************************************************************************)
(* import_tsv on a store that an earlier import of another file has filled: *)
(* the file had the full row (A, start 5, samples "a, b") and the split row *)
(* (B, samples c, gene G, transcript T version 1, start 3), under the       *)
(* complete header.  The split row has no full row of its AnnotSV_ID, so    *)
(* its gene and its transcript are stored without a link.                   *)
(***************************************************************************)
PriorStore ==
    [samples |-> {<<"a">>, <<"b">>, <<"c">>},
     genes |-> {[gene_id |-> NextId({}), gene_name |-> <<"G">>]},
     SV |-> {[SV_id |-> NextId({}), AnnotSV_ID |-> <<"A">>, SV_chrom |-> <<"1">>,
              SV_start |-> DigitsVal(<<"5">>), SV_end |-> DigitsVal(<<"9">>),
              SV_type |-> <<"D", "E", "L">>, Annotation_mode |-> full]},
     Tx |-> {[Tx_id |-> NextId({}), Tx_name |-> <<"T">>, Tx_version |-> Some(<<"1">>),
              Tx_start |-> DigitsVal(<<"3">>), Tx_end |-> DigitsVal(<<"8">>)]},
     sv_samples |-> {<<NextId({}), <<"a">>>>, <<NextId({}), <<"b">>>>},
     sv_genes |-> {},
     sv_tx |-> {}]

InitPrior ==
    /\ hdr \in Headers
    /\ file \in Files
    /\ disk = PriorStore
    /\ db = PriorStore
    /\ conn = "none"
    /\ fh = FALSE
    /\ pc = "idle"
    /\ i = 1
    /\ run = 0
    /\ total_rows = 0
    /\ imported_rows = 0
    /\ skipped_rows = 0
    /\ full_count = 0
    /\ split_count = 0
    /\ processed_sv = {}
    /\ transcript_count = 0
    /\ samples_string = <<>>
    /\ sample_names = <<>>
    /\ snapshot = <<>>

SpecPrior == InitPrior /\ [][Next]_vars

TypeOK ==
    /\ pc \in {"idle", "p1", "p2", "p3", "p4", "done", "aborted", "crashed", "refused"}
    /\ conn \in {"none", "open", "closed"}
    /\ fh \in BOOLEAN
    /\ run \in 0..MaxRuns
    /\ i \in 1..(Len(file) + 1)

(***************************************************************************)
(* parse_multiple_samples on its own: every text over a small alphabet.    *)
(***************************************************************************)
Alphabet == {",", " ", "a", "b"}
Texts == UNION {[1..n -> Alphabet] : n \in 0..MaxLen}

InitParse ==
    /\ samples_string \in Texts
    /\ sample_names = <<>>
    /\ pc = "parse"
    /\ hdr = AllColumns
    /\ file = <<>>
    /\ disk = EmptyStore
    /\ db = EmptyStore
    /\ conn = "none"
    /\ fh = FALSE
    /\ i = 1
    /\ run = 0
    /\ total_rows = 0
    /\ imported_rows = 0
    /\ skipped_rows = 0
    /\ full_count = 0
    /\ split_count = 0
    /\ processed_sv = {}
    /\ transcript_count = 0
    /\ snapshot = <<>>

\* sample_names = parse_multiple_samples(samples_string)
Parse ==
    /\ pc = "parse"
    /\ sample_names' = parse_multiple_samples(samples_string)
    /\ pc' = "parsed"
    /\ UNCHANGED <<hdr, file, disk, db, conn, fh, i, run, counters, samples_string,
                   snapshot>>

NextParse == Parse

SpecParse == InitParse /\ [][NextParse]_vars

(***************************************************************************)
(* The entity resolvers and the bulk insert of phase 2 on their own, called *)
(* in any order on one store.                                              *)
(***************************************************************************)
ResolverGenes == {<<"G">>, <<"H">>}
ResolverTxNames == {<<"T">>}
ResolverVersions == {None, Some(<<>>), Some(<<"1">>)}
ResolverStarts == {3, 4}

InitResolve ==
    /\ pc = "resolve"
    /\ disk = EmptyStore
    /\ db = EmptyStore
    /\ conn = "open"
    /\ hdr = AllColumns
    /\ file = <<>>
    /\ fh = FALSE
    /\ i = 1
    /\ run = 0
    /\ total_rows = 0
    /\ imported_rows = 0
    /\ skipped_rows = 0
    /\ full_count = 0
    /\ split_count = 0
    /\ processed_sv = {}
    /\ transcript_count = 0
    /\ samples_string = <<>>
    /\ sample_names = <<>>
    /\ snapshot = <<>>

\* the INSERT OR IGNORE INTO genes loop of phase 2 over a set of names
BulkGenes ==
    /\ pc = "resolve"
    /\ \E names \in SUBSET ResolverGenes : \E order \in Orders(names) :
           db' = [db EXCEPT !.genes = InsertGenes(@, order)]
    /\ UNCHANGED <<hdr, file, disk, conn, fh, pc, i, run, counters, locals, snapshot>>

\* a call of get_or_create_gene
ResolveGene ==
    /\ pc = "resolve"
    /\ \E g \in ResolverGenes :
           db' = [db EXCEPT !.genes = get_or_create_gene(@, g).table]
    /\ UNCHANGED <<hdr, file, disk, conn, fh, pc, i, run, counters, locals, snapshot>>

\* a call of get_or_create_transcript
ResolveTx ==
    /\ pc = "resolve"
    /\ \E n \in ResolverTxNames, v \in ResolverVersions, st \in ResolverStarts :
           db' = [db EXCEPT !.Tx = get_or_create_transcript(@, n, v, st, st + 5).table]
    /\ UNCHANGED <<hdr, file, disk, conn, fh, pc, i, run, counters, locals, snapshot>>

NextResolve ==
    \/ ResolveGene
    \/ BulkGenes
    \/ ResolveTx

SpecResolve == InitResolve /\ [][NextResolve]_vars

(***************************************************************************)
(* The claims.  Their statements read the file and the tables directly.    *)
(***************************************************************************)
Counts(store) ==
    [samples |-> Cardinality(store.samples), genes |-> Cardinality(store.genes),
     Tx |-> Cardinality(store.Tx), SV |-> Cardinality(store.SV),
     sv_samples |-> Cardinality(store.sv_samples),
     sv_genes |-> Cardinality(store.sv_genes), sv_tx |-> Cardinality(store.sv_tx)]

\* the annotation mode of row k, trimmed and lower-cased
ModeOfRow(k) == Lower(Strip(file[k]["Annotation_mode"]))
IsFullRow(k) == "Annotation_mode" \in hdr /\ ModeOfRow(k) = full
IsSplitRow(k) == "Annotation_mode" \in hdr /\ ModeOfRow(k) = split
IsBadRow(k) == ~IsFullRow(k) /\ ~IsSplitRow(k)

\* the rows a pass has gone through
Seen == IF pc = "p3" THEN 1..(i - 1) ELSE 1..Len(file)

\* C1: when a run of import_tsv has completed and import_tsv completes again
\* on the same file and store, every table has the row count it had after the
\* earlier run.
C1_Idempotent ==
    (pc = "done" /\ snapshot # <<>>) => Counts(disk) = Counts(snapshot[1])

\* the identity tuple of a summary row whose coordinates are integers
TupleOfRow(k) ==
    LET num(col) == IF col \in hdr /\ Strip(file[k][col]) # <<>>
                    THEN ParseInt(file[k][col]).val ELSE 0
    IN  <<IF "AnnotSV_ID" \in hdr THEN Strip(file[k]["AnnotSV_ID"]) ELSE <<>>,
          IF "SV_chrom" \in hdr THEN Strip(file[k]["SV_chrom"]) ELSE <<>>,
          num("SV_start"), num("SV_end"), full>>
HasIntCoords(k) ==
    \A col \in {"SV_start", "SV_end"} :
        (col \in hdr /\ Strip(file[k][col]) # <<>>) => ParseInt(file[k][col]).ok
TupleOfSV(r) == <<r.AnnotSV_ID, r.SV_chrom, r.SV_start, r.SV_end, r.Annotation_mode>>
TuplesSeen == {TupleOfRow(k) : k \in {j \in Seen : IsFullRow(j) /\ HasIntCoords(j)}}

\* C2: in the first run, on the empty store, the SV table holds exactly one
\* row for each identity tuple of the full rows gone through so far, however
\* many rows repeat the tuple, and no other row: split rows create none.
C2_OneSVPerTuple ==
    (run = 1 /\ pc \in {"p3", "p4", "done"}) =>
        /\ \A t \in TuplesSeen : Cardinality({r \in db.SV : TupleOfSV(r) = t}) = 1
        /\ \A r \in db.SV : TupleOfSV(r) \in TuplesSeen

C2_Witness ==
    /\ run = 1
    /\ pc = "done"
    /\ \E j, k \in 1..Len(file) :
          /\ j # k
          /\ IsFullRow(j) /\ IsFullRow(k)
          /\ HasIntCoords(j) /\ HasIntCoords(k)
          /\ TupleOfRow(j) = TupleOfRow(k)
          /\ file[j] # file[k]
    /\ Cardinality(disk.SV) = 1

\* row k names an AnnotSV_ID that has no SV row of mode full in the store
Orphan(store, k) ==
    ~\E r \in store.SV :
        /\ r.AnnotSV_ID = Strip(Field(file[k], "AnnotSV_ID"))
        /\ r.Annotation_mode = full

C3_LinksReferToSV ==
    pc \in {"p4", "done"} =>
        \A l \in db.sv_genes \cup db.sv_tx : \E r \in db.SV : r.SV_id = l[1]

C3_OrphanAddsNothing ==
    (pc = "p4" /\ i <= Len(file) /\ IsSplitRow(i) /\ Orphan(db, i)) =>
        (db'.sv_genes = db.sv_genes /\ db'.sv_tx = db.sv_tx)

\* C3: during phase 4 every sv_genes and sv_tx row refers to an SV row of the
\* SV table, and the step of phase 4 on a split row whose AnnotSV_ID has no
\* SV row of mode full adds no sv_genes row and no sv_tx row.
C3_NoOrphanLinks == [](C3_LinksReferToSV) /\ [][C3_OrphanAddsNothing]_vars

C3_Witness ==
    /\ pc = "p4"
    /\ i > 1
    /\ IsSplitRow(i - 1)
    /\ Orphan(db, i - 1)
    /\ Strip(Field(file[i - 1], "Gene_name")) # <<>>
    /\ db.SV # {}
    /\ db.Tx # {}
    /\ db.sv_genes = {}
    /\ db.sv_tx = {}

BadRowsOfFile == {k \in 1..Len(file) : IsBadRow(k)}

\* C4: when a row of the file has a missing or unrecognised annotation mode,
\* phase 3 never goes past the first such row, phase 4 never starts and the
\* import never completes; once the run has aborted it stays aborted at that
\* row.
C4_AbortOnBadMode ==
    BadRowsOfFile # {} =>
        /\ pc \notin {"p4", "done"}
        /\ pc = "p3" => i <= Min(BadRowsOfFile)
        /\ pc = "aborted" => (i = Min(BadRowsOfFile) /\ total_rows = i)

C4_Witness ==
    /\ pc = "aborted"
    /\ i > 1
    /\ IsBadRow(i)
    /\ ModeOfRow(i) # <<>>

\* C5: the step of phase 3 that adds an SV row links that very row to every
\* sample token of the row of the file it was made from.
C5_LinksOwnSV ==
    [][(pc = "p3" /\ pc' = "p3" /\ db'.SV # db.SV) =>
         \A r \in db'.SV \ db.SV :
            \A s \in Range(parse_multiple_samples(Strip(Field(file[i], "Samples_ID")))) :
                <<r.SV_id, s>> \in db'.sv_samples]_vars

\* C6: once phase 1 has run on a file with at least one data row, the samples
\* table holds the placeholder "NA".
C6_PlaceholderPresent ==
    (pc \notin {"idle", "p1"} /\ Len(file) >= 1) => NA \in disk.samples

\* C7: parse_multiple_samples returns a non-empty list with no empty token,
\* and a text made of commas and blanks only yields the tokens {"NA"}.
C7_ParseSamples ==
    pc = "parsed" =>
        /\ Len(sample_names) >= 1
        /\ \A k \in 1..Len(sample_names) : sample_names[k] # <<>>
        /\ (\A k \in 1..Len(samples_string) : samples_string[k] \in {",", " "})
              => Range(sample_names) = {NA}

C7_Witness ==
    /\ pc = "parsed"
    /\ Len(samples_string) >= 2
    /\ \A k \in 1..Len(samples_string) : samples_string[k] \in {",", " "}
    /\ \E k \in 1..Len(samples_string) : samples_string[k] = ","
    /\ Len(sample_names) >= 2

\* the trimmed non-empty gene names of the split rows
GenesOfSplitRows ==
    IF "Gene_name" \in hdr
    THEN {Strip(file[k]["Gene_name"]) : k \in {j \in 1..Len(file) : IsSplitRow(j)}} \ {<<>>}
    ELSE {}

\* C8: after a completed import the genes table holds exactly the trimmed
\* non-empty gene names of the split rows, and every sv_genes row refers to
\* one of these genes.
C8_GenesFromSplitOnly ==
    pc = "done" =>
        /\ {g.gene_name : g \in disk.genes} = GenesOfSplitRows
        /\ \A l \in disk.sv_genes : \E g \in disk.genes : g.gene_id = l[2]

C8_Witness ==
    /\ pc = "done"
    /\ \E k \in 1..Len(file) :
          /\ IsFullRow(k)
          /\ Strip(Field(file[k], "Gene_name")) # <<>>
          /\ Strip(Field(file[k], "Gene_name")) \notin {g.gene_name : g \in disk.genes}
    /\ disk.sv_genes # {}

\* C9: when phase 4 starts, the SV rows and the SV-sample links written by
\* phase 3 are committed.
C9_Pass3Committed ==
    pc = "p4" => (disk.SV = db.SV /\ disk.sv_samples = db.sv_samples)

\* C10: with an optional column missing from the header, no write of
\* import_tsv fails on a foreign key and the run is not ended by an error.
C10_MissingColumnNoError ==
    (hdr # AllColumns /\ "Annotation_mode" \in hdr /\ "AnnotSV_ID" \in hdr) => pc # "crashed"

\* row k is a full row whose SV_start or SV_end is there but is no integer
BadCoords(k) == IsFullRow(k) /\ ~HasIntCoords(k)

\* row k is a full row whose SV_start is missing or empty
EmptyStart(k) ==
    IsFullRow(k) /\ HasIntCoords(k) /\ Strip(Field(file[k], "SV_start")) = <<>>

C11_SkipStep ==
    (pc = "p3" /\ i <= Len(file) /\ BadCoords(i)) =>
        /\ skipped_rows' = skipped_rows + 1
        /\ db' = db
        /\ imported_rows' = imported_rows
        /\ pc' = "p3"
        /\ i' = i + 1

C11_EmptyIsZero ==
    (pc = "p3" /\ pc' = "p3" /\ i <= Len(file) /\ EmptyStart(i)) =>
        /\ skipped_rows' = skipped_rows
        /\ \E r \in db'.SV :
              /\ r.AnnotSV_ID = Strip(Field(file[i], "AnnotSV_ID"))
              /\ r.SV_start = 0

\* C11: the step of phase 3 on a full row whose SV_start or SV_end is not
\* an integer adds one to skipped_rows, leaves every table as it is and goes
\* on to the next row; on a full row with an empty SV_start nothing is
\* skipped and the store has an SV row of that AnnotSV_ID with start 0.
C11_SkipBadCoords == [][C11_SkipStep /\ C11_EmptyIsZero]_vars

C11_Witness ==
    /\ pc = "p3"
    /\ i = 3
    /\ BadCoords(1)
    /\ EmptyStart(2)
    /\ skipped_rows = 1
    /\ imported_rows = 1
    /\ Cardinality(db.SV) = 1

\* C12: whatever bulk inserts of phase 2 and calls of get_or_create_gene and
\* get_or_create_transcript have been made, the genes table has one row per
\* gene name and the Tx table one row per (Tx_name, Tx_version), an absent
\* version being a value of its own; the bulk insert and get_or_create_gene
\* both resolve a name that has a row to that row.
C12_OneRowPerKey ==
    /\ \A a, b \in db.genes : (a.gene_name = b.gene_name \/ a.gene_id = b.gene_id) => a = b
    /\ \A a, b \in db.Tx :
          ((a.Tx_name = b.Tx_name /\ a.Tx_version = b.Tx_version) \/ a.Tx_id = b.Tx_id)
              => a = b
    /\ \A g \in db.genes :
          /\ get_or_create_gene(db.genes, g.gene_name) = [table |-> db.genes, id |-> g.gene_id]
          /\ InsertGenes(db.genes, <<g.gene_name>>) = db.genes

C12_Witness ==
    /\ pc = "resolve"
    /\ Cardinality(db.genes) = 2
    /\ {t.Tx_version : t \in db.Tx} = {None, Some(<<>>), Some(<<"1">>)}
    /\ Cardinality(db.Tx) = 3

\* phase 4 calls get_or_create_transcript for row k
TxCalled(k) ==
    /\ IsSplitRow(k)
    /\ \A col \in {"AnnotSV_ID", "Tx", "Tx_start", "Tx_end"} :
          col \in hdr /\ Strip(file[k][col]) # <<>>
    /\ ParseInt(file[k]["Tx_start"]).ok
    /\ ParseInt(file[k]["Tx_end"]).ok

\* the Tx rows that have the (Tx_name, Tx_version) key of row k
TxRowsOfKey(store, k) ==
    {r \in store.Tx :
        /\ r.Tx_name = Strip(file[k]["Tx"])
        /\ r.Tx_version = IF "Tx_version" \in hdr THEN Some(Strip(file[k]["Tx_version"]))
                          ELSE None}

\* C13: a call of get_or_create_transcript for a key that has a Tx row leaves
\* the Tx table as it is, whatever coordinates the call restates, and the id
\* it returns, the one phase 4 links to the SV row, is that of the row there.
C13_FirstWriteWins ==
    [][(pc = "p4" /\ i <= Len(file) /\ TxCalled(i) /\ TxRowsOfKey(db, i) # {}) =>
          /\ db'.Tx = db.Tx
          /\ ~Orphan(db, i) =>
                \E r \in TxRowsOfKey(db, i) : \E l \in db'.sv_tx : l[2] = r.Tx_id]_vars

C13_Witness ==
    /\ pc = "p4"
    /\ i > 1
    /\ TxCalled(i - 1)
    /\ Cardinality(db.Tx) = 1
    /\ \E r \in TxRowsOfKey(db, i - 1) : r.Tx_start # ParseInt(file[i - 1]["Tx_start"]).val
    /\ db.sv_tx # {}

\* the store before the run that is in progress
Before == IF snapshot = <<>> THEN PriorStore ELSE snapshot[1]

\* the sample tokens of all rows of the file
SamplesOfRows ==
    IF "Samples_ID" \in hdr
    THEN UNION {Range(parse_multiple_samples(Strip(file[k]["Samples_ID"]))) :
                    k \in 1..Len(file)}
    ELSE {}

(***************************************************************************)
(* C16: when pass 3 aborts on an invalid annotation mode, the store holds   *)
(* the samples and the genes that passes 1 and 2 of this run committed, and *)
(* none of the writes of pass 3: the SV, sv_samples, sv_genes, sv_tx and Tx *)
(* tables are those from before the run.                                    *)
(***************************************************************************)
C16_AbortKeepsCommitted ==
    pc = "aborted" =>
        /\ disk.samples = Before.samples \cup SamplesOfRows
        /\ {g.gene_name : g \in disk.genes} =
              {g.gene_name : g \in Before.genes} \cup GenesOfSplitRows
        /\ Before.genes \subseteq disk.genes
        /\ disk.SV = Before.SV
        /\ disk.sv_samples = Before.sv_samples
        /\ disk.sv_genes = Before.sv_genes
        /\ disk.sv_tx = Before.sv_tx
        /\ disk.Tx = Before.Tx
        /\ db = disk

\* the abort came after pass 3 had inserted an SV row, in a run whose pass 1
\* had committed a sample the store did not hold
C16_Witness ==
    /\ pc = "aborted"
    /\ i > 1
    /\ imported_rows >= 1
    /\ disk.SV # {}
    /\ disk.samples # PriorStore.samples

\* the abort came in a run whose pass 2 had committed a new gene
C16_WitnessGene ==
    /\ pc = "aborted"
    /\ i > 1
    /\ Cardinality(disk.genes) > Cardinality(PriorStore.genes)

(***************************************************************************)
(* C15: when pass 3 has completed, its counters are accurate: total rows =  *)
(* full rows + split rows = number of data rows; the skipped count is the   *)
(* number of full rows rejected for a coordinate that is not an integer;    *)
(* the imported count is the number of SV rows this run added to the SV     *)
(* table (the committed table is still the one from before the run); and    *)
(* imported + skipped <= full rows.                                         *)
(***************************************************************************)
C15_CountersAccurate ==
    pc = "p4" =>
        /\ total_rows = Len(file)
        /\ total_rows = full_count + split_count
        /\ full_count = Cardinality({k \in 1..Len(file) : IsFullRow(k)})
        /\ split_count = Cardinality({k \in 1..Len(file) : IsSplitRow(k)})
        /\ skipped_rows = Cardinality({k \in 1..Len(file) : BadCoords(k)})
        /\ imported_rows = Cardinality(db.SV) - Cardinality(disk.SV)
        /\ imported_rows + skipped_rows <= full_count

\* a second run over a file with one rejected and one imported full row
C15_Witness ==
    /\ pc = "p4"
    /\ disk.SV # {}
    /\ skipped_rows = 1
    /\ imported_rows = 1
    /\ full_count = 2

\* pass 3 completed with a repeated full row: imported + skipped < full rows
C15_WitnessRepeated ==
    /\ pc = "p4"
    /\ full_count = 2
    /\ skipped_rows = 0
    /\ imported_rows = 1

(***************************************************************************)
(* C14: on every exit path of import_tsv (normal completion, the            *)
(* precondition returns, the fatal abort of pass 3 on an invalid annotation *)
(* mode) the database connection and the opened file handle have been       *)
(* released when the run ends.                                              *)
(***************************************************************************)
C14_Released ==
    pc \in {"done", "refused", "aborted"} => (conn # "open" /\ fh = FALSE)

\* the store of SpecPrior is one the program leaves behind
PriorStoreReached == pc = "done" /\ run = 1 /\ disk = PriorStore

====
